---- MODULE Spec2Model ----
(***************************************************************************)
(* camera_utils: the LucidVision Helios and Intel RealSense camera         *)
(* adapters (Helios.py, IntelRealsense.py) as one single-threaded process. *)
(*                                                                         *)
(* The process executes one method call at a time: pc is the position      *)
(* inside that call, op the method, self the adapter it runs on.  The      *)
(* vendor SDKs (arena_api, pyrealsense2) are the environment: what they    *)
(* hand back (device lists, buffers, framesets, register values) is drawn  *)
(* from small sets at the step that calls them.                            *)
(***************************************************************************)
EXTENDS Integers, Sequences, FiniteSets, TLC

VARIABLES
    pc,               \* position inside the running call, "idle" between calls
    self,             \* adapter the running / last call belongs to
    op,               \* method running / last run
    exc,              \* exception that left the last call ("none" if it returned)
    ret,              \* value the last call returned
    log,              \* what __del__ printed last
    hst,              \* Helios adapters: the fields of each object
    registry,         \* arena_api system: the devices created (process-wide)
    streaming,        \* arena_api devices whose stream is started
    tries,            \* Helios.__init__ local
    sec_count,        \* Helios.__init__ local (inner for loop)
    devices,          \* Helios.__init__ local
    attempts,         \* number of system.create_device() calls of the running __init__
    waited,           \* seconds slept by the running __init__
    buffer,           \* Helios get_*: the device buffer held ("none" if none)
    item,             \* Helios get_*: the copy ("none" if none)
    mem,              \* pixel memory behind buffer ("dev") and item ("copy")
    delivered,        \* the pixel data the device put in the last acquired buffer
    acquired,         \* number of get_buffer() calls that returned a buffer
    requeued,         \* number of requeue_buffer() calls
    rst,              \* RealSense adapters: the fields of each object
    frames,           \* RealSense get_*: the last frameset of wait_for_frames()
    color_frame_cam,  \* RealSense get_*: local
    depth_frame_cam   \* RealSense get_*: local

vars == << pc, self, op, exc, ret, log, hst, registry, streaming, tries, sec_count,
           devices, attempts, waited, buffer, item, mem, delivered, acquired,
           requeued, rst, frames, color_frame_cam, depth_frame_cam >>

hlocals == << tries, sec_count, devices, attempts, waited >>
hbuf == << buffer, item, mem, delivered, acquired, requeued >>
rlocals == << frames, color_frame_cam, depth_frame_cam >>

-----------------------------------------------------------------------------
(* Bounds of the model *)

\* pixels per image
NPix == 3
\* retrieval calls that acquire a buffer, per run
MaxCalls == 2

(* Program constants *)

tries_max == 6
sleep_time_secs == 3

-----------------------------------------------------------------------------
(* Values *)

Serials == {"A", "B"}

\* what system.create_device() / the RealSense context can enumerate
DeviceLists == { <<>>, <<"A">>, <<"B">>, <<"A", "B">>, <<"B", "A">> }

SeqToSet(s) == { s[k] : k \in 1..Len(s) }

\* an image: fs is the RealSense frameset it belongs to (0 for Helios)
NoImage == [valid |-> FALSE, fs |-> 0, serial |-> "", w |-> 0, h |-> 0, data |-> <<>>]
Image(f, sn, w, h, d) == [valid |-> TRUE, fs |-> f, serial |-> sn, w |-> w, h |-> h, data |-> d]

NoRet == [kind |-> "none", color |-> NoImage, depth |-> NoImage]

\* a RealSense frameset; id 0 is "no frameset yet"
NoFrameset == [id |-> 0, color |-> NoImage, depth |-> NoImage]

\* width and height the Helios device reports in its Width / Height nodes
HeliosDims == [w |-> 640, h |-> 480]

\* a Helios pixel in Coord3D_ABCY16: << A (x), B (y), C (z), Y (intensity) >>
HeliosPixels ==
    { <<11, 22, 0, 0>>, <<11, 22, 3, 7>>, <<11, 22, 1000, 100>>,
      <<11, 22, 65535, 65535>> }

\* the CoordinateC register pairs: scale = num / den, offset = off / den
Calibrations ==
    { [num |-> 1, den |-> 4, off |-> 0], [num |-> 1, den |-> 1, off |-> 0],
      [num |-> 2, den |-> 1, off |-> 0], [num |-> 1, den |-> 4, off |-> -1],
      [num |-> 1, den |-> 1, off |-> -1] }

NoCal == [num |-> 0, den |-> 1, off |-> 0]

RECURSIVE SeqsOver(_, _)
\* all sequences of length n over S
SeqsOver(S, n) ==
    IF n = 0 THEN { <<>> }
    ELSE { Append(s, x) : s \in SeqsOver(S, n - 1), x \in S }

\* pixel buffers of the pixel-level specification and of the lifecycle one
RichBuffers == SeqsOver(HeliosPixels, NPix)
PlainBuffers == SeqsOver({ <<11, 22, 3, 100>>, <<11, 22, 1000, 7>> }, 1)
PlainCalibrations == { [num |-> 1, den |-> 4, off |-> 0] }

-----------------------------------------------------------------------------
(* Arithmetic of the conversions *)

\* p / q rounded toward zero (q > 0): the C cast of a double to an integer
TruncDiv(p, q) == IF p >= 0 THEN p \div q ELSE -((-p) \div q)

\* numpy's cast of the double p / q to uint16.  In range it truncates; out of
\* range the C conversion is undefined: builds wrap (x86) or saturate (ARM).
CastToU16(p, q) ==
    LET t == TruncDiv(p, q)
    IN  IF t >= 0 /\ t <= 65535 THEN { t } ELSE { t % 65536, 0, 65535 }

\* cvRound: nearest integer, ties to even (p >= 0, q > 0)
RoundHalfEven(p, q) ==
    LET f == p \div q
        r2 == 2 * (p % q)
    IN  IF r2 < q THEN f
        ELSE IF r2 > q THEN f + 1
        ELSE IF f % 2 = 0 THEN f ELSE f + 1

RECURSIVE MinOf(_)
MinOf(s) ==
    IF Len(s) = 1 THEN s[1]
    ELSE LET m == MinOf(Tail(s)) IN IF s[1] < m THEN s[1] ELSE m

RECURSIVE MaxOf(_)
MaxOf(s) ==
    IF Len(s) = 1 THEN s[1]
    ELSE LET m == MaxOf(Tail(s)) IN IF s[1] > m THEN s[1] ELSE m

Channel(pix, c) == [k \in 1..Len(pix) |-> pix[k][c + 1]]

SetChannel(pix, c, vals) ==
    [k \in 1..Len(pix) |-> [pix[k] EXCEPT ![c + 1] = vals[k]]]

RECURSIVE Choices(_)
\* the sequences that pick one element of each set of a sequence of sets
Choices(sets) ==
    IF Len(sets) = 0 THEN { <<>> }
    ELSE { <<x>> \o s : x \in sets[1], s \in Choices(Tail(sets)) }

-----------------------------------------------------------------------------
(* Helios: the pieces of Helios.py that compute *)

\* Camera.__init__ (CameraInterface.py): stores the constructor arguments
CameraInit(obj, rgb, sn) == [obj EXCEPT !.rgb_resolution = rgb, !.serial_number = sn]

\* (mutation of the loop test: one pass too many)
RetryLoopContinuesOffByOne(t) == t <= tries_max

\* while tries < tries_max
RetryLoopContinues(t) == t < tries_max

\* for sec_count in range(sleep_time_secs): the last iteration
SleepLoopEnds(s) == s = sleep_time_secs

\* self.pipeline = devices[0]
BindDevice(ds, sn) == ds[1]

\* what system.destroy_device() can do: with nothing left to destroy the
\* SDK either does nothing or raises
DestroyOutcomes(reg) == IF reg = {} THEN { "ok", "RuntimeError" } ELSE { "ok" }

\* (mutation of the handler: the exception class of set_option's handler)
CatchesTypeError(e) == e = "TypeError"

\* except RuntimeError as ex
Catches(e) == e = "RuntimeError"

\* (mutation of the copy: the item aliases the device buffer)
BufferCopyAddressAlias(b) == b

\* BufferFactory.copy(buffer): a deep copy at a fresh address
BufferCopyAddress(b) == "copy"

\* (mutation of the scaling: the offset is dropped)
HeliosDepthValuesNoOffset(z, cal) == CastToU16(z * cal.num, cal.den)

\* npndarray[:,:,2] * self.scale_C + self.offset_C, stored into the uint16
\* array: the values one raw sample can become
HeliosDepthValues(z, cal) == CastToU16(z * cal.num + cal.off, cal.den)

\* index of the depth channel and of the intensity channel in npndarray
DepthChannel == 2
IntensityChannel == 3

\* (mutation of the normalisation: the full uint16 range instead of the frame's)
NormalizeFixedRange(s) == [k \in 1..Len(s) |-> RoundHalfEven(s[k] * 255, 65535)]

\* cv2.normalize(intensity, intensity, 0, 255, cv2.NORM_MINMAX) on uint16:
\* scale = 255 / (max - min), or 0 when max = min; shift = -min * scale;
\* each sample becomes cvRound(sample * scale + shift)
Normalize(s) ==
    LET smin == MinOf(s)
        smax == MaxOf(s)
    IN  [k \in 1..Len(s) |->
            IF smax - smin > 0
            THEN RoundHalfEven(s[k] * 255 - smin * 255, smax - smin)
            ELSE 0]

\* np.uint8(intensity)
ToUint8(s) == [k \in 1..Len(s) |-> s[k] % 256]

\* which methods return which image
ReturnsIntensity(o) == o \in { "get_rgb", "get_frames", "get_aligned_frames" }
ReturnsDepth(o) == o \in { "get_depth", "get_frames", "get_aligned_frames" }

\* a Helios object; req records the serial_number argument of the constructor,
\* cal the scale_C / offset_C pair as (num, off) / den: the calibrations are
\* dyadic, so the double arithmetic of the decoding is exact
NewHelios ==
    [state |-> "new", rgb_resolution |-> "HD", serial_number |-> "", req |-> "",
     pipeline |-> "none", cal |-> NoCal, width |-> 0, height |-> 0]

RetrievalOps == { "get_rgb", "get_depth", "get_frames", "get_aligned_frames" }

-----------------------------------------------------------------------------
(* Helios.__init__ *)

\* lines 9-19: Camera.__init__, tries = 0
HInitBegin(h, sn) ==
    /\ pc = "idle" /\ hst[h].state = "new"
    /\ pc' = "discover" /\ self' = h /\ op' = "Helios.__init__"
    /\ exc' = "none" /\ ret' = NoRet
    /\ hst' = [hst EXCEPT ![h] = [CameraInit(@, "HD", sn) EXCEPT !.req = sn]]
    /\ tries' = 0 /\ sec_count' = 0 /\ devices' = <<>> /\ attempts' = 0 /\ waited' = 0
    /\ buffer' = "none" /\ item' = "none"
    /\ frames' = NoFrameset /\ color_frame_cam' = NoImage /\ depth_frame_cam' = NoImage
    /\ UNCHANGED << log, registry, streaming, mem, delivered, acquired, requeued, rst >>

\* lines 20-22, 32-34: one pass of the loop head, devices = system.create_device()
HCreateDevice(h, ds) ==
    /\ pc = "discover" /\ self = h /\ op = "Helios.__init__"
    /\ attempts' = attempts + 1
    /\ devices' = ds
    /\ registry' = registry \cup SeqToSet(ds)
    /\ sec_count' = 0
    /\ pc' = IF ds = <<>> THEN "sleep" ELSE "bind"
    /\ UNCHANGED << self, op, exc, ret, log, hst, streaming, tries, waited, hbuf,
                    rst, rlocals >>

\* lines 26-31: time.sleep(1), and after the last one tries += 1 and the loop test
HSleep(h) ==
    /\ pc = "sleep" /\ self = h /\ op = "Helios.__init__"
    /\ waited' = waited + 1
    /\ sec_count' = sec_count + 1
    /\ IF SleepLoopEnds(sec_count + 1)
       THEN /\ tries' = tries + 1
            /\ pc' = IF RetryLoopContinues(tries + 1) THEN "discover" ELSE "raise"
       ELSE /\ tries' = tries
            /\ pc' = "sleep"
    /\ UNCHANGED << self, op, exc, ret, log, hst, registry, streaming, devices,
                    attempts, hbuf, rst, rlocals >>

\* lines 35-36: the while's else branch
HRaise(h) ==
    /\ pc = "raise" /\ self = h /\ op = "Helios.__init__"
    /\ exc' = "Exception"
    /\ hst' = [hst EXCEPT ![h].state = "failed"]
    /\ pc' = "idle"
    /\ UNCHANGED << self, op, ret, log, registry, streaming, hlocals, hbuf, rst, rlocals >>

\* lines 38-81: bind devices[0], read intrinsics, serial number and the
\* CoordinateC scale and offset from its nodemap, start the stream
HConfigure(h, cal) ==
    /\ pc = "bind" /\ self = h /\ op = "Helios.__init__"
    /\ LET dev == BindDevice(devices, hst[h].serial_number)
       IN  /\ hst' = [hst EXCEPT ![h].state = "live",
                                 ![h].pipeline = dev,
                                 ![h].serial_number = dev,
                                 ![h].width = HeliosDims.w,
                                 ![h].height = HeliosDims.h,
                                 ![h].cal = cal]
           /\ streaming' = streaming \cup { dev }
    /\ pc' = "idle"
    /\ UNCHANGED << self, op, exc, ret, log, registry, hlocals, hbuf, rst, rlocals >>

-----------------------------------------------------------------------------
(* Helios.__del__ *)

\* lines 83-88: system.destroy_device() releases every device of the process
HDel(h, out) ==
    /\ pc = "idle" /\ hst[h].state # "new"
    /\ out \in DestroyOutcomes(registry)
    /\ self' = h /\ op' = "Helios.__del__" /\ ret' = NoRet
    /\ hst' = [hst EXCEPT ![h].state = IF @ = "live" THEN "closed" ELSE @]
    /\ IF out = "ok"
       THEN /\ registry' = {} /\ streaming' = {}
            /\ log' = "closed" /\ exc' = "none"
       ELSE /\ UNCHANGED << registry, streaming >>
            /\ IF Catches(out)
               THEN log' = "exception" /\ exc' = "none"
               ELSE log' = log /\ exc' = out
    /\ pc' = "idle"
    /\ tries' = 0 /\ sec_count' = 0 /\ devices' = <<>> /\ attempts' = 0 /\ waited' = 0
    /\ buffer' = "none" /\ item' = "none"
    /\ frames' = NoFrameset /\ color_frame_cam' = NoImage /\ depth_frame_cam' = NoImage
    /\ UNCHANGED << mem, delivered, acquired, requeued, rst >>

-----------------------------------------------------------------------------
(* Helios.get_rgb / get_depth / get_frames / get_aligned_frames *)

\* lines 91, 107, 122, 141: the call is entered (get_aligned_frames enters
\* get_frames); what the previous call left behind is gone
HBegin(h, o) ==
    /\ pc = "idle" /\ hst[h].state = "live" /\ acquired < MaxCalls
    /\ self' = h /\ op' = o /\ ret' = NoRet /\ exc' = "none"
    /\ pc' = "acquire"
    /\ tries' = 0 /\ sec_count' = 0 /\ devices' = <<>> /\ attempts' = 0 /\ waited' = 0
    /\ frames' = NoFrameset /\ color_frame_cam' = NoImage /\ depth_frame_cam' = NoImage
    /\ buffer' = "none" /\ item' = "none"
    /\ mem' = [dev |-> <<>>, copy |-> <<>>]
    /\ delivered' = <<>>
    /\ UNCHANGED << log, hst, registry, streaming, acquired, requeued, rst >>

\* lines 95, 111, 126: buffer = self.pipeline.get_buffer(); a device that was
\* destroyed hands out nothing and the call ends with the SDK's error
HGetBuffer(h, pix) ==
    /\ pc = "acquire" /\ self = h
    /\ IF hst[h].pipeline \in streaming
       THEN /\ buffer' = "dev"
            /\ mem' = [mem EXCEPT !["dev"] = pix]
            /\ delivered' = pix
            /\ acquired' = acquired + 1
            /\ exc' = "none"
            /\ pc' = "copy"
       ELSE /\ UNCHANGED << buffer, mem, delivered, acquired >>
            /\ exc' = "RuntimeError"
            /\ pc' = "idle"
    /\ UNCHANGED << self, op, ret, log, hst, registry, streaming, hlocals, item,
                    requeued, rst, rlocals >>

\* lines 96, 112, 127: item = BufferFactory.copy(buffer)
HCopy(h) ==
    /\ pc = "copy" /\ self = h
    /\ item' = BufferCopyAddress(buffer)
    /\ mem' = [mem EXCEPT ![BufferCopyAddress(buffer)] = mem[buffer]]
    /\ pc' = "requeue"
    /\ UNCHANGED << self, op, exc, ret, log, hst, registry, streaming, hlocals,
                    buffer, delivered, acquired, requeued, rst, rlocals >>

\* lines 97, 113, 128: self.pipeline.requeue_buffer(buffer)
HRequeue(h) ==
    /\ pc = "requeue" /\ self = h
    /\ requeued' = requeued + 1
    /\ buffer' = "none"
    /\ pc' = "decode"
    /\ UNCHANGED << self, op, exc, ret, log, hst, registry, streaming, hlocals,
                    item, mem, delivered, acquired, rst, rlocals >>

\* lines 99-104, 115-119, 130-138 (and 145, which calls get_frames): view the
\* item as height x width x 4 uint16, scale channel 2 in place, normalise
\* channel 3, return
HDecode(h) ==
    /\ pc = "decode" /\ self = h
    /\ LET npndarray == mem[item]
           zsets == [k \in 1..Len(npndarray) |->
                        HeliosDepthValues(npndarray[k][DepthChannel + 1], hst[h].cal)]
       IN  \E zs \in Choices(zsets) :
             LET scaled == IF ReturnsDepth(op)
                           THEN SetChannel(npndarray, DepthChannel, zs)
                           ELSE npndarray
                 depth == Channel(scaled, DepthChannel)
                 intensity == ToUint8(Normalize(Channel(scaled, IntensityChannel)))
                 sn == hst[h].pipeline
             IN  /\ mem' = [mem EXCEPT ![item] = scaled]
                 /\ ret' = [kind |-> op,
                            color |-> IF ReturnsIntensity(op)
                                      THEN Image(0, sn, HeliosDims.w, HeliosDims.h, intensity)
                                      ELSE NoImage,
                            depth |-> IF ReturnsDepth(op)
                                      THEN Image(0, sn, HeliosDims.w, HeliosDims.h, depth)
                                      ELSE NoImage]
    /\ pc' = "idle"
    /\ UNCHANGED << self, op, exc, log, hst, registry, streaming, hlocals, buffer,
                    item, delivered, acquired, requeued, rst, rlocals >>

-----------------------------------------------------------------------------
(* RealSense: the pieces of IntelRealsense.py that compute *)

Resolutions == { "HD", "FullHD" }

\* config.enable_stream(rs.stream.depth, 1280, 720, ...)
DepthStream == [w |-> 1280, h |-> 720]

\* config.enable_stream(rs.stream.color, ...): 1280x720 for HD, else 1920x1080
ColorStream(rgb) ==
    IF rgb = "HD" THEN [w |-> 1280, h |-> 720] ELSE [w |-> 1920, h |-> 1080]

\* if depth_in_meters: self.mm2m_conversion = 1000, else 1
Mm2mConversion(depth_in_meters) == IF depth_in_meters THEN 1000 ELSE 1

\* self.pipeline.start(config): the device the pipeline resolves to, or the
\* SDK's RuntimeError.  config.enable_device was called iff sn # "".
PipelineStart(sn, avail, supported) ==
    IF ~supported THEN "RuntimeError"
    ELSE IF sn # "" THEN (IF sn \in SeqToSet(avail) THEN sn ELSE "RuntimeError")
    ELSE IF avail = <<>> THEN "RuntimeError"
    ELSE avail[1]

\* self.pipeline.stop(): raises when the pipeline is not started
StopOutcome(started) == IF started THEN "ok" ELSE "RuntimeError"

\* a double as numerator / denominator
Ratio(p, q) == [p |-> p, q |-> q]
\* x / self.mm2m_conversion on a double array element
DivideBy(x, c) == Ratio(x.p, x.q * c)
\* np.asanyarray(x, dtype=np.uint16): the quotient of a uint16 by a positive
\* integer is in range, the cast truncates
AsUint16(x) == TruncDiv(x.p, x.q)

\* (mutation of get_depth: the division is left out)
GetDepthValueUndivided(raw, c) == AsUint16(Ratio(raw, 1))

\* get_depth, line 74: depth_frame / self.mm2m_conversion, as uint16
GetDepthValue(raw, c) == AsUint16(DivideBy(Ratio(raw, 1), c))

\* get_frames and get_aligned_frames, lines 85+88 and 101+104: the division
\* of line 85 (101) and again the division of line 88 (104), as uint16
GetFramesValue(raw, c) == AsUint16(DivideBy(DivideBy(Ratio(raw, 1), c), c))

\* the loop tests: while not color_frame / while not depth_frame /
\* while not color_frame_cam or not depth_frame_cam
PollAgain(o, color, depth) ==
    CASE o = "get_rgb" -> ~color.valid
      [] o = "get_depth" -> ~depth.valid
      [] OTHER -> ~color.valid \/ ~depth.valid

\* the frameset wait_for_frames() returns: the streams deliver frames of the
\* configured sizes, each stamped with the frameset it came in
Frameset(r, id, hasColor, hasDepth, data) ==
    [id |-> id,
     color |-> IF hasColor
               THEN Image(id, r.device, r.color.w, r.color.h, <<>>) ELSE NoImage,
     depth |-> IF hasDepth
               THEN Image(id, r.device, DepthStream.w, DepthStream.h, data) ELSE NoImage]

\* rs.align(rs.stream.color).process(frames): depth reprojected onto the
\* colour grid; a frameset lacking either stream passes through unchanged
AlignProcess(fs) ==
    IF fs.color.valid /\ fs.depth.valid
    THEN [fs EXCEPT !.depth.w = fs.color.w, !.depth.h = fs.color.h]
    ELSE fs

\* aligned_frames.first(rs.stream.color): raises when the frameset holds no
\* frame of that stream (get_color_frame returns an empty frame instead)
FirstRaises(fs) == ~fs.color.valid

NextFramesetId(id) == (id % 3) + 1

\* an IntelRealsense object; depth_in_meters records the constructor
\* argument, device the device the pipeline resolved to
NewRealsense ==
    [state |-> "new", rgb_resolution |-> "HD", serial_number |-> "", device |-> "none",
     depth_in_meters |-> FALSE, started |-> FALSE, color |-> [w |-> 0, h |-> 0],
     width |-> 0, height |-> 0, mm2m_conversion |-> 1]

-----------------------------------------------------------------------------
(* IntelRealsense.__init__ and __del__ *)

\* lines 7-43; a RuntimeError of pipeline.start ends the process with exit(1)
RInit(r, rgb, sn, meters, avail, supported) ==
    /\ pc = "idle" /\ rst[r].state = "new"
    /\ self' = r /\ op' = "RS.__init__" /\ ret' = NoRet
    /\ LET obj == CameraInit(rst[r], rgb, sn)
           dev == PipelineStart(obj.serial_number, avail, supported)
           color == ColorStream(obj.rgb_resolution)
       IN  IF dev = "RuntimeError"
           THEN /\ rst' = [rst EXCEPT ![r] = [obj EXCEPT !.state = "failed"]]
                /\ exc' = "SystemExit"
                /\ pc' = "exited"
           ELSE /\ rst' = [rst EXCEPT ![r] =
                             [obj EXCEPT !.state = "live", !.device = dev,
                                         !.depth_in_meters = meters,
                                         !.started = TRUE,
                                         !.color = color,
                                         !.width = color.w, !.height = color.h,
                                         !.mm2m_conversion = Mm2mConversion(meters)]]
                /\ exc' = "none"
                /\ pc' = "idle"
    /\ tries' = 0 /\ sec_count' = 0 /\ devices' = <<>> /\ attempts' = 0 /\ waited' = 0
    /\ buffer' = "none" /\ item' = "none"
    /\ frames' = NoFrameset /\ color_frame_cam' = NoImage /\ depth_frame_cam' = NoImage
    /\ UNCHANGED << log, hst, registry, streaming, mem, delivered, acquired, requeued >>

\* lines 45-50
RDel(r) ==
    /\ pc = "idle" /\ rst[r].state # "new"
    /\ self' = r /\ op' = "RS.__del__" /\ ret' = NoRet
    /\ LET out == StopOutcome(rst[r].started)
       IN  /\ rst' = [rst EXCEPT ![r].started = FALSE, ![r].state = "closed"]
           /\ IF out = "ok"
              THEN log' = "closed" /\ exc' = "none"
              ELSE IF Catches(out)
                   THEN log' = "exception" /\ exc' = "none"
                   ELSE log' = log /\ exc' = out
    /\ pc' = "idle"
    /\ tries' = 0 /\ sec_count' = 0 /\ devices' = <<>> /\ attempts' = 0 /\ waited' = 0
    /\ buffer' = "none" /\ item' = "none"
    /\ frames' = NoFrameset /\ color_frame_cam' = NoImage /\ depth_frame_cam' = NoImage
    /\ UNCHANGED << hst, registry, streaming, mem, delivered, acquired, requeued >>

-----------------------------------------------------------------------------
(* IntelRealsense.get_rgb / get_depth / get_frames / get_aligned_frames *)

\* lines 57, 69, 80, 94: the locals start as None
RBegin(r, o) ==
    /\ pc = "idle" /\ rst[r].state = "live"
    /\ self' = r /\ op' = o /\ ret' = NoRet /\ exc' = "none"
    /\ pc' = "poll"
    /\ tries' = 0 /\ sec_count' = 0 /\ devices' = <<>> /\ attempts' = 0 /\ waited' = 0
    /\ buffer' = "none" /\ item' = "none"
    /\ frames' = NoFrameset /\ color_frame_cam' = NoImage /\ depth_frame_cam' = NoImage
    /\ UNCHANGED << log, hst, registry, streaming, mem, delivered, acquired, requeued,
                    rst >>

\* one pass of the loop body (lines 59-60, 71-72, 82-84, 96-100) and the loop test
RWaitForFrames(r, hasColor, hasDepth, data) ==
    /\ pc = "poll" /\ self = r
    /\ LET fs == Frameset(rst[r], NextFramesetId(frames.id), hasColor, hasDepth, data)
           got == IF op = "get_aligned_frames" THEN AlignProcess(fs) ELSE fs
           color == IF op = "get_depth" THEN color_frame_cam ELSE got.color
           depth == IF op = "get_rgb" THEN depth_frame_cam ELSE got.depth
       IN  /\ frames' = fs
           /\ IF op = "get_aligned_frames" /\ FirstRaises(got)
              THEN /\ exc' = "RuntimeError"
                   /\ pc' = "idle"
                   /\ UNCHANGED << color_frame_cam, depth_frame_cam >>
              ELSE /\ color_frame_cam' = color
                   /\ depth_frame_cam' = depth
                   /\ exc' = exc
                   /\ pc' = IF PollAgain(op, color, depth) THEN "poll" ELSE "convert"
    /\ UNCHANGED << self, op, ret, log, hst, registry, streaming, hlocals, hbuf, rst >>

\* lines 62-63, 73-74, 85-88, 101-104: convert and return
RConvert(r) ==
    /\ pc = "convert" /\ self = r
    /\ LET c == rst[r].mm2m_conversion
           d == depth_frame_cam
           out == IF op = "get_depth"
                  THEN [k \in 1..Len(d.data) |-> GetDepthValue(d.data[k], c)]
                  ELSE [k \in 1..Len(d.data) |-> GetFramesValue(d.data[k], c)]
       IN  ret' = [kind |-> op,
                   color |-> IF op = "get_depth" THEN NoImage ELSE color_frame_cam,
                   depth |-> IF op = "get_rgb" THEN NoImage ELSE [d EXCEPT !.data = out]]
    /\ pc' = "idle"
    /\ UNCHANGED << self, op, exc, log, hst, registry, streaming, hlocals, hbuf, rst,
                    rlocals >>

-----------------------------------------------------------------------------
(* The process *)

\* depth samples a RealSense depth frame can hold
DepthSamples == { 999, 1000, 65535 }
RichDepth == SeqsOver(DepthSamples, NPix)

InitOf(HS, RS) ==
    /\ pc = "idle" /\ self = 0 /\ op = "none" /\ exc = "none" /\ ret = NoRet
    /\ log = "none"
    /\ hst = [h \in HS |-> NewHelios]
    /\ registry = {} /\ streaming = {}
    /\ tries = 0 /\ sec_count = 0 /\ devices = <<>> /\ attempts = 0 /\ waited = 0
    /\ buffer = "none" /\ item = "none"
    /\ mem = [dev |-> <<>>, copy |-> <<>>]
    /\ delivered = <<>> /\ acquired = 0 /\ requeued = 0
    /\ rst = [r \in RS |-> NewRealsense]
    /\ frames = NoFrameset /\ color_frame_cam = NoImage /\ depth_frame_cam = NoImage

HeliosInitSteps(HS, SNS, LISTS, CALS) ==
    \E h \in HS :
        \/ \E sn \in SNS : HInitBegin(h, sn)
        \/ \E ds \in LISTS : HCreateDevice(h, ds)
        \/ HSleep(h)
        \/ HRaise(h)
        \/ \E cal \in CALS : HConfigure(h, cal)

HeliosGetSteps(HS, BUFS) ==
    \E h \in HS :
        \/ \E o \in RetrievalOps : HBegin(h, o)
        \/ \E pix \in BUFS : HGetBuffer(h, pix)
        \/ HCopy(h)
        \/ HRequeue(h)
        \/ HDecode(h)

HeliosDelSteps(HS) ==
    \E h \in HS, out \in { "ok", "RuntimeError" } : HDel(h, out)

RealsenseInitSteps(RS, RGBS, SNS, LISTS, METERS) ==
    \E r \in RS, rgb \in RGBS, sn \in SNS, m \in METERS, av \in LISTS, ok \in BOOLEAN :
        RInit(r, rgb, sn, m, av, ok)

RealsenseDelSteps(RS) ==
    \E r \in RS : RDel(r)

RealsenseGetSteps(RS, DATA) ==
    \E r \in RS :
        \/ \E o \in RetrievalOps : RBegin(r, o)
        \/ \E hc \in BOOLEAN, hd \in BOOLEAN :
             \E data \in (IF hd THEN DATA ELSE { <<>> }) :
                \* a frameset holds at least one frame
                (hc \/ hd) /\ RWaitForFrames(r, hc, hd, data)
        \/ RConvert(r)

(* Lifecycle: two Helios adapters and a RealSense adapter are constructed,   *)
(* used and torn down while the Helios devices A and B are both connected    *)
(* (a discovery returns both, in either order, or nothing yet).              *)
Init == InitOf({ 1, 2 }, { 1 })

Next ==
    \/ HeliosInitSteps({ 1, 2 }, Serials, { <<>>, <<"A", "B">>, <<"B", "A">> },
                       PlainCalibrations)
    \/ HeliosGetSteps({ 1, 2 }, PlainBuffers)
    \/ HeliosDelSteps({ 1, 2 })
    \/ RealsenseInitSteps({ 1 }, { "HD" }, { "" }, { <<"A">> }, { FALSE })
    \/ RealsenseDelSteps({ 1 })

Spec == Init /\ [][Next]_vars

(* Helios decoding: one adapter retrieves images of every pixel buffer       *)
(* under every calibration.                                                  *)
InitDecode == InitOf({ 1 }, { })

NextDecode ==
    \/ HeliosInitSteps({ 1 }, { "" }, { <<>>, <<"A">> }, Calibrations)
    \/ HeliosGetSteps({ 1 }, RichBuffers)

SpecDecode == InitDecode /\ [][NextDecode]_vars

(* RealSense retrieval: one adapter, every colour resolution and unit flag,  *)
(* with and without a serial number, every frameset the pipeline can deliver *)
InitRS == InitOf({ }, { 1 })

NextRS ==
    \/ RealsenseInitSteps({ 1 }, Resolutions, { "", "A" },
                          { <<>>, <<"A">>, <<"B", "A">> }, BOOLEAN)
    \/ RealsenseGetSteps({ 1 }, RichDepth)

SpecRS == InitRS /\ [][NextRS]_vars

-----------------------------------------------------------------------------
(* Claims *)

Returned(o) == pc = "idle" /\ op = o /\ exc = "none" /\ ret.kind = o

\* C1: Helios construction calls system.create_device at most 6 times; every
\* failed attempt is followed by 3 seconds of sleep; after 6 failed attempts
\* it raises, unbound and not streaming, having waited between 5x3 and 6x3
\* seconds; when attempt k finds devices there is no further attempt or wait
\* and the adapter is bound to the first device of that list.
C1_BoundedRetry ==
    /\ attempts <= 6
    /\ op = "Helios.__init__" =>
         /\ pc = "discover" => attempts = tries /\ waited = 3 * attempts /\ attempts < 6
         /\ pc = "sleep" =>
              attempts = tries + 1 /\ waited = 3 * tries + sec_count /\ sec_count < 3
         /\ pc = "raise" => attempts = 6 /\ waited = 3 * 6
         /\ pc = "bind" =>
              devices # <<>> /\ attempts = tries + 1 /\ waited = 3 * (attempts - 1)
         /\ (pc = "idle" /\ exc = "Exception") =>
              /\ attempts = 6
              /\ waited >= 5 * 3 /\ waited <= 6 * 3
              /\ devices = <<>>
              /\ hst[self].state = "failed"
              /\ hst[self].pipeline = "none"
              /\ hst[self].pipeline \notin streaming
         /\ (pc = "idle" /\ exc = "none") =>
              /\ attempts >= 1 /\ attempts <= 6
              /\ waited = 3 * (attempts - 1)
              /\ devices # <<>>
              /\ hst[self].state = "live"
              /\ hst[self].pipeline = devices[1]
    /\ \A h \in DOMAIN hst : hst[h].state = "failed" => hst[h].pipeline = "none"

\* a construction that failed after the whole retry budget
C1_Witness ==
    /\ pc = "idle" /\ op = "Helios.__init__" /\ exc = "Exception"
    /\ attempts = 6 /\ waited = 18

\* C6: with both devices connected, two Helios adapters constructed with
\* distinct serial numbers are each bound to the device of their own serial
\* number, keep that serial number, and return frames of that device only.
C6_BoundToOwnSerial ==
    (/\ \A h \in DOMAIN hst : hst[h].state = "live"
     /\ hst[1].req # hst[2].req)
    => /\ \A h \in DOMAIN hst :
            hst[h].pipeline = hst[h].req /\ hst[h].serial_number = hst[h].req
       /\ \A o \in RetrievalOps :
            Returned(o) =>
              /\ ret.color.valid => ret.color.serial = hst[self].req
              /\ ret.depth.valid => ret.depth.serial = hst[self].req

\* C7: a teardown never lets an exception out, whether it is the first or a
\* repeated one, or a Helios teardown after another adapter's teardown already
\* emptied the process-wide registry: a failing release is caught and
\* reported, and the device is released afterwards.
C7_TeardownIdempotent ==
    /\ (pc = "idle" /\ op = "Helios.__del__") =>
         /\ exc = "none"
         /\ log \in { "closed", "exception" }
         /\ registry = {} /\ streaming = {}
    /\ (pc = "idle" /\ op = "RS.__del__") =>
         /\ exc = "none"
         /\ log \in { "closed", "exception" }
         /\ ~rst[self].started

\* the teardown of the second Helios adapter found the registry already
\* released by the first and reported the failure
C7_Witness ==
    /\ pc = "idle" /\ op = "Helios.__del__" /\ log = "exception" /\ exc = "none"
    /\ hst[1].state = "closed" /\ hst[2].state = "closed"

\* C10: a Helios retrieval acquires one buffer, copies it and requeues it
\* before it decodes; decoding writes to the copy only; between calls no
\* buffer is held and as many buffers were requeued as acquired.
C10_BufferDiscipline ==
    /\ pc = "idle" => buffer = "none" /\ acquired = requeued
    /\ pc = "copy" => buffer = "dev" /\ acquired = requeued + 1
    /\ pc = "requeue" =>
         /\ buffer = "dev" /\ acquired = requeued + 1
         /\ item # buffer /\ mem[item] = mem[buffer]
    /\ pc = "decode" => buffer = "none" /\ acquired = requeued /\ item # "none"
    /\ pc = "acquire" => buffer = "none" /\ acquired = requeued
    /\ pc \notin { "copy", "requeue" } => acquired = requeued
    /\ mem["dev"] = delivered

\* two retrievals completed, the second having scaled the depth of its copy
C10_Witness ==
    /\ Returned("get_frames")
    /\ acquired = 2 /\ requeued = 2
    /\ mem["copy"] # mem["dev"]

-----------------------------------------------------------------------------
(* Claims about Helios decoding, under SpecDecode *)

HeliosReturned == \E o \in RetrievalOps : Returned(o)

\* C4 as stated: every depth value a Helios retrieval returns equals
\* raw * scale_C + offset_C exactly, for every raw sample and calibration.
C4_ExactDepth ==
    (HeliosReturned /\ ret.depth.valid) =>
        \A k \in 1..Len(delivered) :
            LET cal == hst[self].cal
                raw == delivered[k][3]
            IN  ret.depth.data[k] * cal.den = raw * cal.num + cal.off

\* C4 as amended: every depth value a Helios retrieval returns is a uint16,
\* and whenever raw * scale_C + offset_C, its fraction discarded (rounded
\* toward zero), lies in 0..65535, the value returned is that number; the
\* raw sample is channel index 2 of the acquired buffer, and get_depth,
\* get_frames and get_aligned_frames follow the same rule.
C4_TruncatedDepth ==
    (HeliosReturned /\ ret.depth.valid) =>
        /\ Len(ret.depth.data) = Len(delivered)
        /\ \A k \in 1..Len(delivered) :
            LET cal == hst[self].cal
                p == delivered[k][3] * cal.num + cal.off
                d == ret.depth.data[k]
            IN  /\ d >= 0 /\ d <= 65535
                /\ (p >= 0 /\ p < 65536 * cal.den) =>
                      d * cal.den <= p /\ p < (d + 1) * cal.den
                /\ (p < 0 /\ p > -cal.den) => d = 0

\* a retrieval returned a depth whose fraction was discarded
C4_Witness ==
    /\ Returned("get_aligned_frames")
    /\ hst[self].cal = [num |-> 1, den |-> 4, off |-> -1]
    /\ delivered[1][3] = 1000 /\ ret.depth.data[1] = 249
    /\ delivered[2][3] = 0 /\ ret.depth.data[2] = 0

IsMinimum(s, k) == \A j \in 1..Len(s) : s[k] <= s[j]
IsMaximum(s, k) == \A j \in 1..Len(s) : s[k] >= s[j]

\* C8 as stated: in every intensity image a Helios retrieval returns, the
\* pixel of the minimum raw intensity (channel index 3) is 0, the pixel of
\* the maximum raw intensity is 255, and every value lies in 0..255.
C8_MinMaxStretched ==
    (HeliosReturned /\ ret.color.valid) =>
        \A k \in 1..Len(delivered) :
            LET raw == [j \in 1..Len(delivered) |-> delivered[j][4]]
                v == ret.color.data[k]
            IN  /\ v >= 0 /\ v <= 255
                /\ IsMinimum(raw, k) => v = 0
                /\ IsMaximum(raw, k) => v = 255

\* C8 as amended: every value lies in 0..255 and the pixel of the minimum raw
\* intensity is 0; the pixel of the maximum raw intensity is 255 when the
\* frame's minimum and maximum differ, and in a frame whose raw intensities
\* are all equal every pixel is 0.
C8_Normalized ==
    (HeliosReturned /\ ret.color.valid) =>
        /\ Len(ret.color.data) = Len(delivered)
        /\ \A k \in 1..Len(delivered) :
            LET raw == [j \in 1..Len(delivered) |-> delivered[j][4]]
                v == ret.color.data[k]
            IN  /\ v >= 0 /\ v <= 255
                /\ IsMinimum(raw, k) => v = 0
                /\ (IsMaximum(raw, k) /\ ~IsMinimum(raw, k)) => v = 255

\* an image with its minimum at 0, its maximum at 255 and a value between
C8_Witness ==
    /\ Returned("get_rgb")
    /\ \E i, j, k \in 1..Len(delivered) :
         /\ ret.color.data[i] = 0 /\ ret.color.data[j] = 255
         /\ ret.color.data[k] > 0 /\ ret.color.data[k] < 255

-----------------------------------------------------------------------------
(* Claims about RealSense retrieval, under SpecRS *)

\* the divisor the unit policy prescribes
UnitDivisor(r) == IF rst[r].depth_in_meters THEN 1000 ELSE 1

\* C2: get_depth returns, for every pixel, the raw sample divided by 1000
\* when depth_in_meters was requested and by 1 otherwise, the fraction
\* discarded, as a uint16.
C2_GetDepthUnits ==
    Returned("get_depth") =>
        /\ Len(ret.depth.data) = Len(depth_frame_cam.data)
        /\ \A k \in 1..Len(depth_frame_cam.data) :
            LET raw == depth_frame_cam.data[k]
                d == ret.depth.data[k]
                c == UnitDivisor(self)
            IN  /\ d >= 0 /\ d <= 65535
                /\ d * c <= raw /\ raw < (d + 1) * c

\* get_depth in metres returned 65 for a raw sample of 65535
C2_Witness ==
    /\ Returned("get_depth")
    /\ rst[self].depth_in_meters
    /\ \E k \in 1..Len(ret.depth.data) :
         depth_frame_cam.data[k] = 65535 /\ ret.depth.data[k] = 65

\* C3: the depth get_frames and get_aligned_frames return follows the unit
\* policy of get_depth: the raw sample divided once by 1000 when
\* depth_in_meters was requested, unchanged otherwise.
C3_FramesUnits ==
    (Returned("get_frames") \/ Returned("get_aligned_frames")) =>
        \A k \in 1..Len(depth_frame_cam.data) :
            LET raw == depth_frame_cam.data[k]
                d == ret.depth.data[k]
                c == UnitDivisor(self)
            IN  d * c <= raw /\ raw < (d + 1) * c

\* C5: the colour and the depth image get_frames returns have the same width
\* and height, those of the Intrinsics recorded at initialization.
C5_FramesMatchIntrinsics ==
    Returned("get_frames") =>
        /\ ret.color.w = ret.depth.w /\ ret.color.h = ret.depth.h
        /\ ret.color.w = rst[self].width /\ ret.color.h = rst[self].height

\* C9: get_frames and get_aligned_frames end only by returning a colour and
\* a depth frame of one and the same frameset, the last one; until a frameset
\* holds both they poll again.  get_rgb returns the colour frame of the first
\* frameset that holds one, get_depth the depth frame likewise.
C9_PollUntilComplete ==
    /\ (pc = "idle" /\ op \in { "get_frames", "get_aligned_frames" }) =>
         /\ exc = "none"
         /\ ret.color.valid /\ ret.depth.valid
         /\ ret.color.fs = frames.id /\ ret.depth.fs = frames.id
    /\ (pc = "idle" /\ op = "get_rgb") =>
         exc = "none" /\ ret.color.valid /\ ret.color.fs = frames.id
    /\ (pc = "idle" /\ op = "get_depth") =>
         exc = "none" /\ ret.depth.valid /\ ret.depth.fs = frames.id
    /\ (pc = "poll" /\ op \in { "get_frames", "get_aligned_frames" }) =>
         ~(frames.color.valid /\ frames.depth.valid)
    /\ (pc = "poll" /\ op = "get_rgb") => ~frames.color.valid
    /\ (pc = "poll" /\ op = "get_depth") => ~frames.depth.valid

====
